---- MODULE Spec2Model ----
\* Model of rust-pssh (src/src/main.rs): host partitioning, semaphore-bounded
\* dispatch of one task per host, the timeout-wrapped remote operation, the
\* shared result buffer, the join loop and the JSON log writer.
EXTENDS Integers, Sequences, FiniteSets, TLC

\* ---------------------------------------------------------------- bounds
MaxHosts == 2
MaxTotal == 2
MaxConcurrency == 2
MaxTimeoutSecs == 1
MaxTime == 2000
MaxLen == 4
MaxInstances == 3

\* Duration::from_secs / as_millis: milliseconds in one second
MsPerSec == 1000

\* Host names that may appear in the host file of a run, in file order
HostPool == <<"a", "b", "c", "d", "e">>

\* Host names used for the partitioner's input lists
PartHosts == {"a", "b", "c", "d"}

VARIABLES
    mainpc,          \* position of main()
    index,           \* --index
    total,           \* --total
    concurrency,     \* --concurrency
    timeout_secs,    \* --timeout
    all_hosts,       \* lines of the host file
    filtered_hosts,  \* hosts selected for this instance
    permits,         \* permits available in the Semaphore
    taskpc,          \* position of each spawned task
    permit,          \* each task's OwnedSemaphorePermit: none / held / dropped
    start_time,      \* each task's start_time (ms)
    res,             \* each task's res: <<outer, inner>>
    results,         \* the shared VecDeque<HostResult>
    joined,          \* number of join handles yielded by futures.next()
    json,            \* Option of the serialized document
    logfile,         \* the log file on disk
    now,             \* the clock (ms)
    parts            \* partitions computed by the cooperating instances

vars == <<mainpc, index, total, concurrency, timeout_secs, all_hosts,
          filtered_hosts, permits, taskpc, permit, start_time, res, results,
          joined, json, logfile, now, parts>>

\* ------------------------------------------------------------ data model
None == <<>>
Some(x) == <<x>>

HostResult(h, st, d, out, err) ==
    [host |-> h, status |-> st, duration_ms |-> d, output |-> out, error |-> err]

Tasks == 1..Len(filtered_hosts)

NoRes == <<"None", "None">>

\* -------------------------------------------------------- host partitioner
\* (variant: positions counted from one)
EnumerateFromOne(hosts) == [i \in 1..Len(hosts) |-> <<i, hosts[i]>>]

\* .into_iter().enumerate(): 0-based position paired with the host
Enumerate(hosts) == [i \in 1..Len(hosts) |-> <<i - 1, hosts[i]>>]

\* (variant: the filter keeps every remainder up to index)
FilterUpToIndex(e, idx, tot) == SelectSeq(e, LAMBDA p : p[1] % tot <= idx)

\* .filter(|(i, _)| i % total == index)
FilterByIndex(e, idx, tot) == SelectSeq(e, LAMBDA p : p[1] % tot = idx)

\* .map(|(_, h)| h)
MapHost(e) == [k \in 1..Len(e) |-> e[k][2]]

\* lines 93-98: the whole iterator chain
Partition(hosts, idx, tot) == MapHost(FilterByIndex(Enumerate(hosts), idx, tot))

\* the filter panics (remainder by zero) as soon as it sees one element
PartitionPanics(hosts, tot) == tot = 0 /\ Len(hosts) > 0

\* ------------------------------------------------------------ serializer
JsonOpt(o) == IF o = None THEN <<"null">> ELSE <<"string", o[1]>>

JsonObject(r) ==
    [host |-> r.host, status |-> r.status, duration_ms |-> r.duration_ms,
     output |-> JsonOpt(r.output), error |-> JsonOpt(r.error)]

\* (variant: an empty collection is serialized as null)
ToJsonNullWhenEmpty(rs) ==
    IF rs = <<>> THEN <<"null">>
    ELSE [k \in 1..Len(rs) |-> JsonObject(rs[k])]

\* serde_json::to_string_pretty(&*collected): an array, one object per record
ToJson(rs) == [k \in 1..Len(rs) |-> JsonObject(rs[k])]

\* (variant: the Display text, as format!("{}", e) would give)
DisplayFmt(e) == IF e = "Elapsed" THEN "deadline has elapsed" ELSE e

\* format!("{:?}", e)
DebugFmt(e) == IF e = "Elapsed" THEN "Elapsed(())" ELSE e

\* ------------------------------------------------------------------ Init
Init ==
    /\ mainpc = "parse"
    /\ index \in 0..MaxTotal
    /\ total \in 0..MaxTotal
    /\ concurrency \in 0..MaxConcurrency
    /\ timeout_secs \in 0..MaxTimeoutSecs
    /\ all_hosts = <<>>
    /\ filtered_hosts = <<>>
    /\ permits = 0
    /\ taskpc = <<>>
    /\ permit = <<>>
    /\ start_time = <<>>
    /\ res = <<>>
    /\ results = <<>>
    /\ joined = 0
    /\ json = None
    /\ logfile = [exists |-> FALSE, data |-> <<>>]
    /\ now = 0
    /\ parts = <<>>

\* ------------------------------------------------------------------ main
\* lines 81-85: the numeric arguments are parsed; a bad number returns Err
ParseArgs ==
    /\ mainpc = "parse"
    /\ \E ok \in BOOLEAN : mainpc' = IF ok THEN "read" ELSE "exit_err"
    /\ UNCHANGED <<index, total, concurrency, timeout_secs, all_hosts,
                   filtered_hosts, permits, taskpc, permit, start_time, res,
                   results, joined, json, logfile, now, parts>>

HostFiles == {SubSeq(HostPool, 1, n) : n \in 0..MaxHosts}

\* lines 88-90: File::open(hostfile)? and the collection of its lines
ReadHosts ==
    /\ mainpc = "read"
    /\ \/ /\ mainpc' = "exit_err"
          /\ UNCHANGED all_hosts
       \/ /\ \E hs \in HostFiles : all_hosts' = hs
          /\ mainpc' = "partition"
    /\ UNCHANGED <<index, total, concurrency, timeout_secs, filtered_hosts,
                   permits, taskpc, permit, start_time, res, results, joined,
                   json, logfile, now, parts>>

\* lines 93-107: filtered_hosts, then the semaphore, the result buffer and
\* the (empty) FuturesUnordered
PartitionHosts ==
    /\ mainpc = "partition"
    /\ IF PartitionPanics(all_hosts, total)
       THEN /\ mainpc' = "panicked"
            /\ UNCHANGED <<filtered_hosts, permits, taskpc, permit,
                           start_time, res>>
       ELSE LET fh == Partition(all_hosts, index, total) IN
            /\ filtered_hosts' = fh
            /\ permits' = concurrency
            /\ taskpc' = [t \in 1..Len(fh) |-> "unspawned"]
            /\ permit' = [t \in 1..Len(fh) |-> "none"]
            /\ start_time' = [t \in 1..Len(fh) |-> 0]
            /\ res' = [t \in 1..Len(fh) |-> NoRes]
            /\ mainpc' = "spawn"
    /\ UNCHANGED <<index, total, concurrency, timeout_secs, all_hosts,
                   results, joined, json, logfile, now, parts>>

Spawned == {t \in Tasks : taskpc[t] # "unspawned"}

\* lines 110-152: one iteration of the spawn loop, tokio::spawn of the next host
Spawn ==
    /\ mainpc = "spawn"
    /\ Cardinality(Spawned) < Len(filtered_hosts)
    /\ LET t == Cardinality(Spawned) + 1 IN
       taskpc' = [taskpc EXCEPT ![t] = "pending"]
    /\ UNCHANGED <<mainpc, index, total, concurrency, timeout_secs, all_hosts,
                   filtered_hosts, permits, permit, start_time, res, results,
                   joined, json, logfile, now, parts>>

\* line 110: the spawn loop ends when filtered_hosts is exhausted
SpawnDone ==
    /\ mainpc = "spawn"
    /\ Cardinality(Spawned) = Len(filtered_hosts)
    /\ mainpc' = "join"
    /\ UNCHANGED <<index, total, concurrency, timeout_secs, all_hosts,
                   filtered_hosts, permits, taskpc, permit, start_time, res,
                   results, joined, json, logfile, now, parts>>

Finished == {t \in Tasks : taskpc[t] = "done"}

\* line 155: futures.next().await yields the handle of a finished task
JoinNext ==
    /\ mainpc = "join"
    /\ joined < Cardinality(Finished)
    /\ joined' = joined + 1
    /\ UNCHANGED <<mainpc, index, total, concurrency, timeout_secs, all_hosts,
                   filtered_hosts, permits, taskpc, permit, start_time, res,
                   results, json, logfile, now, parts>>

\* (variant: the loop ends as soon as no finished handle is waiting)
JoinDoneWhenIdle ==
    /\ mainpc = "join"
    /\ joined = Cardinality(Finished)
    /\ mainpc' = "serialize"
    /\ UNCHANGED <<index, total, concurrency, timeout_secs, all_hosts,
                   filtered_hosts, permits, taskpc, permit, start_time, res,
                   results, joined, json, logfile, now, parts>>

\* line 155: futures.next() yields None once every handle has been yielded
JoinDone ==
    /\ mainpc = "join"
    /\ joined = Len(filtered_hosts)
    /\ mainpc' = "serialize"
    /\ UNCHANGED <<index, total, concurrency, timeout_secs, all_hosts,
                   filtered_hosts, permits, taskpc, permit, start_time, res,
                   results, joined, json, logfile, now, parts>>

\* lines 158-159: lock the buffer and serialize it
Serialize ==
    /\ mainpc = "serialize"
    /\ json' = Some(ToJson(results))
    /\ mainpc' = "create"
    /\ UNCHANGED <<index, total, concurrency, timeout_secs, all_hosts,
                   filtered_hosts, permits, taskpc, permit, start_time, res,
                   results, joined, logfile, now, parts>>

\* line 160: File::create(logfile)? creates or truncates the file
CreateLog ==
    /\ mainpc = "create"
    /\ \/ /\ mainpc' = "exit_err"
          /\ UNCHANGED logfile
       \/ /\ logfile' = [exists |-> TRUE, data |-> <<>>]
          /\ mainpc' = "write"
    /\ UNCHANGED <<index, total, concurrency, timeout_secs, all_hosts,
                   filtered_hosts, permits, taskpc, permit, start_time, res,
                   results, joined, json, now, parts>>

\* line 161: file.write_all(json.as_bytes())?
WriteLog ==
    /\ mainpc = "write"
    /\ \/ /\ mainpc' = "exit_err"
          /\ UNCHANGED logfile
       \/ /\ logfile' = [exists |-> TRUE, data |-> json]
          /\ mainpc' = "report"
    /\ UNCHANGED <<index, total, concurrency, timeout_secs, all_hosts,
                   filtered_hosts, permits, taskpc, permit, start_time, res,
                   results, joined, json, now, parts>>

\* lines 163-165: println!("Results written to ..."); Ok(())
Finish ==
    /\ mainpc = "report"
    /\ mainpc' = "exit_ok"
    /\ UNCHANGED <<index, total, concurrency, timeout_secs, all_hosts,
                   filtered_hosts, permits, taskpc, permit, start_time, res,
                   results, joined, json, logfile, now, parts>>

\* ------------------------------------------------------------ task body
mainvars == <<mainpc, index, total, concurrency, timeout_secs, all_hosts,
              filtered_hosts, joined, json, logfile, parts>>

\* Duration::from_secs(timeout_secs), counted from start_time
Deadline(t) == start_time[t] + timeout_secs * MsPerSec

\* (variant: the elapsed time in whole seconds, as as_secs() would give)
ElapsedSecs(t) == (now - start_time[t]) \div MsPerSec

\* start_time.elapsed().as_millis()
Elapsed(t) == now - start_time[t]

InFlight(t) == taskpc[t] \in {"connect", "command", "close"}

\* (variant: admission does not wait for a free permit)
AcquireWithoutWaiting(t) ==
    /\ taskpc[t] = "pending"
    /\ permits' = permits - 1
    /\ permit' = [permit EXCEPT ![t] = "held"]
    /\ start_time' = [start_time EXCEPT ![t] = now]
    /\ taskpc' = [taskpc EXCEPT ![t] = "connect"]
    /\ UNCHANGED <<mainvars, res, results, now>>

\* (variant: the timer is the one taken when the task was created)
AcquireKeepingTimer(t) ==
    /\ taskpc[t] = "pending"
    /\ permits > 0
    /\ permits' = permits - 1
    /\ permit' = [permit EXCEPT ![t] = "held"]
    /\ taskpc' = [taskpc EXCEPT ![t] = "connect"]
    /\ UNCHANGED <<mainvars, start_time, res, results, now>>

\* lines 117-118: semaphore.acquire_owned().await, then Instant::now()
Acquire(t) ==
    /\ taskpc[t] = "pending"
    /\ permits > 0
    /\ permits' = permits - 1
    /\ permit' = [permit EXCEPT ![t] = "held"]
    /\ start_time' = [start_time EXCEPT ![t] = now]
    /\ taskpc' = [taskpc EXCEPT ![t] = "connect"]
    /\ UNCHANGED <<mainvars, res, results, now>>

\* the inner future returns Err(e) through `?`: timeout yields Ok(Err(e))
InnerErr(t, e) ==
    /\ res' = [res EXCEPT ![t] = <<"Ok", e>>]
    /\ taskpc' = [taskpc EXCEPT ![t] = "drop"]
    /\ UNCHANGED <<mainvars, permits, permit, start_time, results, now>>

\* lines 121-124: SessionBuilder ... .connect(&host_clone).await?
Connect(t) ==
    /\ taskpc[t] = "connect"
    /\ \/ /\ taskpc' = [taskpc EXCEPT ![t] = "command"]
          /\ UNCHANGED <<mainvars, permits, permit, start_time, res, results,
                         now>>
       \/ InnerErr(t, "connect failed")

\* lines 126-127: session.command(cmd).output().await? and the stdout text
RunCommand(t) ==
    /\ taskpc[t] = "command"
    /\ \/ /\ taskpc' = [taskpc EXCEPT ![t] = "close"]
          /\ UNCHANGED <<mainvars, permits, permit, start_time, res, results,
                         now>>
       \/ InnerErr(t, "command failed")

\* lines 128-138: session.close().await?, the success record, Ok(())
Close(t) ==
    /\ taskpc[t] = "close"
    /\ \/ /\ results' = Append(results,
                 HostResult(filtered_hosts[t], "success", Elapsed(t),
                            Some("stdout"), None))
          /\ res' = [res EXCEPT ![t] = <<"Ok", "Ok">>]
          /\ taskpc' = [taskpc EXCEPT ![t] = "drop"]
          /\ UNCHANGED <<mainvars, permits, permit, start_time, now>>
       \/ InnerErr(t, "close failed")

\* (variant: the timeout path leaves the task without returning the permit)
TimedOutKeepingPermit(t) ==
    /\ InFlight(t)
    /\ now >= Deadline(t)
    /\ res' = [res EXCEPT ![t] = <<"Err", "Elapsed">>]
    /\ taskpc' = [taskpc EXCEPT ![t] = "check"]
    /\ UNCHANGED <<mainvars, permits, permit, start_time, results, now>>

\* (variant: an expired deadline cancels every operation in flight)
TimedOutCancelsAll(t) ==
    /\ InFlight(t)
    /\ now >= Deadline(t)
    /\ res' = [u \in DOMAIN res |->
                 IF InFlight(u) THEN <<"Err", "Elapsed">> ELSE res[u]]
    /\ taskpc' = [u \in DOMAIN taskpc |->
                    IF InFlight(u) THEN "drop" ELSE taskpc[u]]
    /\ UNCHANGED <<mainvars, permits, permit, start_time, results, now>>

\* (variant: the deadline still fires after the inner future has completed)
TimedOutAfterCompletion(t) ==
    /\ InFlight(t) \/ taskpc[t] = "drop"
    /\ now >= Deadline(t)
    /\ res' = [res EXCEPT ![t] = <<"Err", "Elapsed">>]
    /\ taskpc' = [taskpc EXCEPT ![t] = "drop"]
    /\ UNCHANGED <<mainvars, permits, permit, start_time, results, now>>

\* (variant: the timeout path appends its record before the permit is dropped)
TimedOutRecordsFirst(t) ==
    /\ InFlight(t)
    /\ now >= Deadline(t)
    /\ results' = Append(results,
           HostResult(filtered_hosts[t], "error", Elapsed(t), None,
                      Some(DebugFmt("Elapsed"))))
    /\ res' = [res EXCEPT ![t] = <<"Err", "Elapsed">>]
    /\ taskpc' = [taskpc EXCEPT ![t] = "drop"]
    /\ UNCHANGED <<mainvars, permits, permit, start_time, now>>

\* line 120: the deadline passes while the inner future is pending; the
\* inner future is dropped and timeout yields Err(Elapsed)
TimedOut(t) ==
    /\ InFlight(t)
    /\ now >= Deadline(t)
    /\ res' = [res EXCEPT ![t] = <<"Err", "Elapsed">>]
    /\ taskpc' = [taskpc EXCEPT ![t] = "drop"]
    /\ UNCHANGED <<mainvars, permits, permit, start_time, results, now>>

\* line 140: drop(permit)
DropPermit(t) ==
    /\ taskpc[t] = "drop"
    /\ permits' = permits + 1
    /\ permit' = [permit EXCEPT ![t] = "dropped"]
    /\ taskpc' = [taskpc EXCEPT ![t] = "check"]
    /\ UNCHANGED <<mainvars, start_time, res, results, now>>

\* line 142: if let Err(e) = res
MatchesErr(r) == r[1] = "Err"

\* (variant: the error record keeps an empty output string)
CheckResWithOutput(t) ==
    /\ taskpc[t] = "check"
    /\ IF MatchesErr(res[t])
       THEN results' = Append(results,
                HostResult(filtered_hosts[t], "error", Elapsed(t), Some(""),
                           Some(DebugFmt(res[t][2]))))
       ELSE UNCHANGED results
    /\ taskpc' = [taskpc EXCEPT ![t] = "done"]
    /\ UNCHANGED <<mainvars, permits, permit, start_time, res, now>>

\* (variant: a failed task goes back to wait for a permit and tries again)
CheckResRetrying(t) ==
    /\ taskpc[t] = "check"
    /\ IF MatchesErr(res[t])
       THEN /\ results' = Append(results,
                   HostResult(filtered_hosts[t], "error", Elapsed(t), None,
                              Some(DebugFmt(res[t][2]))))
            /\ taskpc' = [taskpc EXCEPT ![t] = "pending"]
       ELSE /\ UNCHANGED results
            /\ taskpc' = [taskpc EXCEPT ![t] = "done"]
    /\ UNCHANGED <<mainvars, permits, permit, start_time, res, now>>

\* lines 142-151: the error record when res matches Err(e); the task ends
CheckRes(t) ==
    /\ taskpc[t] = "check"
    /\ IF MatchesErr(res[t])
       THEN results' = Append(results,
                HostResult(filtered_hosts[t], "error", Elapsed(t), None,
                           Some(DebugFmt(res[t][2]))))
       ELSE UNCHANGED results
    /\ taskpc' = [taskpc EXCEPT ![t] = "done"]
    /\ UNCHANGED <<mainvars, permits, permit, start_time, res, now>>

\* the clock advances
Tick ==
    /\ now + MsPerSec <= MaxTime
    /\ now' = now + MsPerSec
    /\ UNCHANGED <<mainvars, permits, taskpc, permit, start_time, res,
                   results>>

Next ==
    \/ ParseArgs
    \/ ReadHosts
    \/ PartitionHosts
    \/ Spawn
    \/ SpawnDone
    \/ JoinNext
    \/ JoinDone
    \/ Serialize
    \/ CreateLog
    \/ WriteLog
    \/ Finish
    \/ Tick
    \/ \E t \in Tasks : Acquire(t)
    \/ \E t \in Tasks : Connect(t)
    \/ \E t \in Tasks : RunCommand(t)
    \/ \E t \in Tasks : Close(t)
    \/ \E t \in Tasks : TimedOut(t)
    \/ \E t \in Tasks : DropPermit(t)
    \/ \E t \in Tasks : CheckRes(t)

Spec == Init /\ [][Next]_vars

\* ------------------------------------------- the partitioner on its own
\* Every host list of at most MaxLen hosts
HostLists == UNION {[1..n -> PartHosts] : n \in 0..MaxLen}

InitPart ==
    /\ mainpc = "instances"
    /\ index = 0
    /\ total \in 0..MaxInstances
    /\ concurrency = 0
    /\ timeout_secs = 0
    /\ all_hosts \in HostLists
    /\ filtered_hosts = <<>>
    /\ permits = 0
    /\ taskpc = <<>>
    /\ permit = <<>>
    /\ start_time = <<>>
    /\ res = <<>>
    /\ results = <<>>
    /\ joined = 0
    /\ json = None
    /\ logfile = [exists |-> FALSE, data |-> <<>>]
    /\ now = 0
    /\ parts = <<>>

\* lines 93-98 as run by the instance started with --index index: the
\* (position, host) pairs that pass the filter and the hosts mapped from them
PartitionInstance ==
    /\ mainpc = "instances"
    /\ index < total
    /\ filtered_hosts' = Partition(all_hosts, index, total)
    /\ parts' = Append(parts,
           [index |-> index,
            picked |-> FilterByIndex(Enumerate(all_hosts), index, total),
            hosts |-> Partition(all_hosts, index, total)])
    /\ index' = index + 1
    /\ UNCHANGED <<mainpc, total, concurrency, timeout_secs, all_hosts,
                   permits, taskpc, permit, start_time, res, results, joined,
                   json, logfile, now>>

\* every instance 0..total-1 has partitioned the list
InstancesDone ==
    /\ mainpc = "instances"
    /\ index = total
    /\ mainpc' = "merged"
    /\ UNCHANGED <<index, total, concurrency, timeout_secs, all_hosts,
                   filtered_hosts, permits, taskpc, permit, start_time, res,
                   results, joined, json, logfile, now, parts>>

NextPart == PartitionInstance \/ InstancesDone

SpecPart == InitPart /\ [][NextPart]_vars

\* ---------------------------------------------------------- partitioning
\* C7: for index < total, total >= 1, the selected hosts are exactly those at
\* 0-based positions p with p mod total = index, in their original order.
C7_PartitionSelectsByPosition ==
    \A k \in 1..Len(parts) :
        LET i == parts[k].index
            sel == parts[k].hosts
            P == {p \in 0..(Len(all_hosts) - 1) : p % total = i}
        IN /\ Len(sel) = Cardinality(P)
           /\ \A j \in 1..Len(sel) :
                 /\ (i + (j - 1) * total) \in P
                 /\ sel[j] = all_hosts[i + (j - 1) * total + 1]

\* the example of the specification: [a,b,c,d], total 2, index 0 selects [a,c]
C7_Witness ==
    /\ all_hosts = <<"a", "b", "c", "d">>
    /\ total = 2
    /\ Len(parts) >= 1
    /\ parts[1].index = 0
    /\ parts[1].hosts = <<"a", "c">>

PickedAt(p) ==
    {ik \in (1..Len(parts)) \X (1..MaxLen + 1) :
        /\ ik[2] <= Len(parts[ik[1]].picked)
        /\ parts[ik[1]].picked[ik[2]][1] = p}

\* C8: for total >= 1 the selections for index 0..total-1 are pairwise
\* disjoint by position and together cover every position exactly once, so
\* that merging them by position gives back the host list.
C8_PartitionsDisjointAndCover ==
    /\ \A i, j \in 1..Len(parts) :
          i # j =>
             {parts[i].picked[k][1] : k \in 1..Len(parts[i].picked)} \cap
             {parts[j].picked[k][1] : k \in 1..Len(parts[j].picked)} = {}
    /\ \A i \in 1..Len(parts) :
          /\ Len(parts[i].hosts) = Len(parts[i].picked)
          /\ \A k \in 1..Len(parts[i].picked) :
                /\ parts[i].picked[k][1] \in 0..(Len(all_hosts) - 1)
                /\ parts[i].hosts[k] = all_hosts[parts[i].picked[k][1] + 1]
    /\ (mainpc = "merged" /\ total >= 1) =>
          \A p \in 0..(Len(all_hosts) - 1) : Cardinality(PickedAt(p)) = 1

C8_Witness ==
    /\ mainpc = "merged"
    /\ total = 3
    /\ Len(all_hosts) = 4
    /\ Len(parts) = 3

\* ------------------------------------------------------------ the run
JoinCompleted == mainpc \in {"serialize", "create", "write", "report", "exit_ok"}

RecordsOf(t) == {k \in 1..Len(results) : results[k].host = filtered_hosts[t]}

Holding == {t \in Tasks : permit[t] = "held"}

\* main is between the creation of the semaphore (line 101) and its return
SemaphoreInUse ==
    mainpc \in {"spawn", "join", "serialize", "create", "write", "report",
                "exit_ok"}

RemoteError(t) == res[t][1] = "Ok" /\ res[t][2] # "Ok"

DeadlineExpired(t) == res[t] = <<"Err", "Elapsed">>

\* C1: once the join loop has completed, the result buffer holds exactly one
\* record for every dispatched host, whichever path each task took.
C1_OneRecordPerHostAfterJoin ==
    JoinCompleted =>
        /\ Len(results) = Len(filtered_hosts)
        /\ \A t \in Tasks : Cardinality(RecordsOf(t)) = 1

\* C2: a task whose remote operation returned an error before the deadline
\* appends a record with status "error", no output and the error description.
C2_RemoteErrorIsRecorded ==
    \A t \in Tasks :
        (taskpc[t] = "done" /\ RemoteError(t)) =>
            \E k \in RecordsOf(t) :
                /\ results[k].status = "error"
                /\ results[k].output = None
                /\ results[k].error = Some(res[t][2])

\* C3: the number of tasks holding a permit never exceeds the concurrency.
C3_ConcurrencyBound == Cardinality(Holding) <= concurrency

C3_Witness ==
    /\ concurrency = 1
    /\ \E t, u \in Tasks : permit[t] = "held" /\ taskpc[u] = "pending"

\* C4: every task that acquired a permit returns it exactly once on every
\* exit path: a task past line 140 no longer holds its permit, permits are
\* conserved, and once all tasks are terminal every permit is available again.
C4_PermitReturnedExactlyOnce ==
    /\ SemaphoreInUse => permits + Cardinality(Holding) = concurrency
    /\ \A t \in Tasks :
          /\ taskpc[t] \in {"check", "done"} => permit[t] = "dropped"
          /\ taskpc[t] \in {"connect", "command", "close", "drop"} =>
                permit[t] = "held"
    /\ (mainpc = "join" /\ \A t \in Tasks : taskpc[t] = "done") =>
          permits = concurrency

C4_Witness ==
    /\ mainpc = "join"
    /\ Len(filtered_hosts) = 2
    /\ \A t \in Tasks : taskpc[t] = "done"
    /\ \E t \in Tasks : DeadlineExpired(t)
    /\ \E t \in Tasks : RemoteError(t)
    /\ permits = concurrency

\* C5 as stated: a task whose deadline expired appends a record with status
\* "error", no output and error equal to "timeout".
C5_TimeoutRecordSaysTimeout ==
    \A t \in Tasks :
        (taskpc[t] = "done" /\ DeadlineExpired(t)) =>
            /\ Cardinality(RecordsOf(t)) = 1
            /\ \A k \in RecordsOf(t) :
                  /\ results[k].status = "error"
                  /\ results[k].output = None
                  /\ results[k].error = Some("timeout")

\* C5 amended: a task whose deadline expired has its operation cancelled and
\* appends one record with status "error", no output and error equal to the
\* Debug rendering of the elapsed-deadline error, "Elapsed(())".
C5_TimeoutRecordSaysElapsed ==
    \A t \in Tasks :
        /\ (DeadlineExpired(t) /\ taskpc[t] # "done") =>
              (~InFlight(t) /\ RecordsOf(t) = {})
        /\ (DeadlineExpired(t) /\ taskpc[t] = "done") =>
              /\ Cardinality(RecordsOf(t)) = 1
              /\ \A k \in RecordsOf(t) :
                    /\ results[k].status = "error"
                    /\ results[k].output = None
                    /\ results[k].error = Some("Elapsed(())")

C5_Witness ==
    \E t \in Tasks :
        /\ taskpc[t] = "done"
        /\ DeadlineExpired(t)
        /\ RecordsOf(t) # {}

\* C6: every record has status "success" iff error is absent and output is
\* present, status "error" iff output is absent and error is present, and no
\* other status.
C6_StatusFieldInvariant ==
    \A k \in 1..Len(results) :
        LET r == results[k] IN
        /\ r.status \in {"success", "error"}
        /\ r.status = "success" <=> (r.error = None /\ r.output # None)
        /\ r.status = "error" <=> (r.output = None /\ r.error # None)

C6_Witness ==
    /\ \E k \in 1..Len(results) : results[k].status = "success"
    /\ \E k \in 1..Len(results) : results[k].status = "error"

InvalidPartition == total = 0 \/ index >= total

\* C9: with total = 0 or index >= total the run aborts with a setup error
\* before any task is dispatched, writes no file and does not report success.
C9_InvalidPartitionAborts ==
    (InvalidPartition /\ mainpc \notin {"parse", "read", "partition"}) =>
        /\ mainpc \in {"exit_err", "panicked"}
        /\ ~logfile.exists

\* C10: the result buffer is serialized only after every spawned task has
\* ended, and no record is appended after it has been read.
C10_ReadOnlyAfterAllTasksEnd ==
    json # None =>
        /\ \A t \in Tasks : taskpc[t] = "done"
        /\ json = Some(ToJson(results))

C10_Witness ==
    /\ json # None
    /\ Len(filtered_hosts) = 2
    /\ Len(results) = 2

\* File::create(logfile)? returned the error: main ended after serializing,
\* with no file created
LogfileCreateFailed == mainpc = "exit_err" /\ json # None /\ ~logfile.exists

\* C11: in a run whose logfile cannot be created no host's remote operation
\* is ever started.
C11_NoTaskStartedWhenLogfileFails ==
    LogfileCreateFailed =>
        \A t \in Tasks : taskpc[t] \in {"unspawned", "pending"}

\* main has partitioned the host list and the selection is empty
EmptySelection ==
    /\ mainpc \in {"spawn", "join", "serialize", "create", "write", "report",
                   "exit_ok"}
    /\ filtered_hosts = <<>>

\* C12: with an empty selection no task is spawned, the join loop can end at
\* once, the output is an empty array and the run reports success.
C12_EmptySelectionIsValidRun ==
    EmptySelection =>
        /\ Tasks = {}
        /\ results = <<>>
        /\ mainpc = "join" => joined = Len(filtered_hosts)
        /\ json # None => json = Some(<<>>)
        /\ mainpc \in {"report", "exit_ok"} =>
              logfile = [exists |-> TRUE, data |-> Some(<<>>)]

C12_Witness ==
    /\ mainpc = "exit_ok"
    /\ all_hosts = <<>>
    /\ filtered_hosts = <<>>
    /\ logfile.exists
    /\ logfile.data = Some(<<>>)

\* the step moves task t, and t has (after the step) failed or timed out
FailureStepOf(t) ==
    /\ taskpc'[t] # taskpc[t]
    /\ \/ res'[t][1] = "Err"
       \/ res'[t][1] = "Ok" /\ res'[t][2] # "Ok"

\* C14: a timeout or remote error in one task changes only that task: it
\* returns only that task's permit and appends at most that task's record;
\* every other task's state and permit, the records already appended and
\* main are left unchanged.
C14_FailureTouchesOnlyItsTask ==
    [][\A t \in Tasks :
          FailureStepOf(t) =>
             /\ \A u \in Tasks \ {t} :
                   /\ taskpc'[u] = taskpc[u]
                   /\ permit'[u] = permit[u]
                   /\ res'[u] = res[u]
                   /\ start_time'[u] = start_time[u]
             /\ permits' = permits +
                   (IF permit[t] = "held" /\ permit'[t] = "dropped"
                    THEN 1 ELSE 0)
             /\ \/ results' = results
                \/ /\ Len(results') = Len(results) + 1
                   /\ SubSeq(results', 1, Len(results)) = results
                   /\ results'[Len(results')].host = filtered_hosts[t]
             /\ mainpc' = mainpc
             /\ joined' = joined]_vars

C14_Witness ==
    \E t, u \in Tasks :
        /\ t # u
        /\ taskpc[t] = "done"
        /\ DeadlineExpired(t)
        /\ RecordsOf(t) # {}
        /\ InFlight(u)
        /\ permit[u] = "held"

SuccessRecorded(t) == \E k \in RecordsOf(t) : results[k].status = "success"

ErrorRecorded(t) == \E k \in RecordsOf(t) : results[k].status = "error"

\* C15: each dispatched host has at most one record; the race between
\* completion and deadline has one winner, so no task has both a success and
\* an error record, and once the success record is appended the deadline can
\* no longer fire for that task.
C15_SingleWinner ==
    \A t \in Tasks :
        /\ Cardinality(RecordsOf(t)) <= 1
        /\ ~(SuccessRecorded(t) /\ ErrorRecorded(t))
        /\ SuccessRecorded(t) => (res[t] = <<"Ok", "Ok">> /\ ~InFlight(t))
        /\ ErrorRecorded(t) => res[t] # <<"Ok", "Ok">>

C15_Witness ==
    \E t \in Tasks :
        /\ SuccessRecorded(t)
        /\ taskpc[t] = "done"
        /\ now >= Deadline(t) + MsPerSec

\* C16 as stated: on every terminal path the permit is returned before the
\* task's record is appended.
C16_ReleaseBeforeEveryRecord ==
    \A t \in Tasks : RecordsOf(t) # {} => permit[t] = "dropped"

\* C16 amended: on timeout the permit is returned and then the error record
\* is appended; on success the success record is appended first, while the
\* permit is still held, and the permit is returned afterwards.
C16_ReleaseBeforeErrorRecordOnly ==
    \A t \in Tasks :
        /\ ErrorRecorded(t) => permit[t] = "dropped"
        /\ (taskpc[t] = "drop" /\ res[t] = <<"Ok", "Ok">>) =>
              (SuccessRecorded(t) /\ permit[t] = "held")
        /\ (permit[t] = "dropped" /\ res[t] = <<"Ok", "Ok">>) =>
              SuccessRecorded(t)
        /\ SuccessRecorded(t) => permit[t] \in {"held", "dropped"}

C16_Witness ==
    \E t, u \in Tasks :
        /\ taskpc[t] = "drop"
        /\ SuccessRecorded(t)
        /\ permit[t] = "held"
        /\ DeadlineExpired(u)
        /\ ErrorRecorded(u)

Waiting(t) == taskpc[t] \in {"unspawned", "pending"}

\* C17: the recorded duration is measured from the moment the permit was
\* acquired: the timer is set at admission, is not touched afterwards, and
\* every record carries the time since then, so waiting adds nothing.
C17_DurationFromAdmission ==
    [][\A t \in Tasks :
          /\ (Waiting(t) /\ taskpc'[t] # taskpc[t] /\ taskpc'[t] # "pending") =>
                (permit'[t] = "held" /\ start_time'[t] = now')
          /\ ~Waiting(t) => start_time'[t] = start_time[t]
          /\ (/\ Len(results') = Len(results) + 1
              /\ results'[Len(results')].host = filtered_hosts[t]) =>
                results'[Len(results')].duration_ms = now - start_time[t]]_vars

C17_Witness ==
    /\ concurrency = 1
    /\ Len(filtered_hosts) = 2
    /\ \E t \in Tasks : \E k \in RecordsOf(t) :
          /\ start_time[t] >= MsPerSec
          /\ results[k].duration_ms + MsPerSec <= now
          /\ results[k].duration_ms = MsPerSec
          /\ now = start_time[t] + MsPerSec

TimeoutMs == timeout_secs * MsPerSec

\* C18 as stated: every record of the deadline path has a duration of at
\* least the timeout, and every success record a duration of at most the
\* timeout.
C18_DurationsOnBothSidesOfTimeout ==
    \A k \in 1..Len(results) :
        /\ results[k].status = "error" => results[k].duration_ms >= TimeoutMs
        /\ results[k].status = "success" => results[k].duration_ms <= TimeoutMs

\* C18 amended: every record of the deadline path has a duration of at least
\* the timeout; nothing bounds the duration of a success record.
C18_TimeoutRecordNotBelowTimeout ==
    \A k \in 1..Len(results) :
        results[k].error = Some("Elapsed(())") =>
            /\ results[k].status = "error"
            /\ results[k].duration_ms >= TimeoutMs

C18_Witness ==
    /\ timeout_secs >= 1
    /\ \E k \in 1..Len(results) :
          /\ results[k].error = Some("Elapsed(())")
          /\ results[k].duration_ms = TimeoutMs
    /\ \E k \in 1..Len(results) :
          /\ results[k].status = "success"
          /\ results[k].duration_ms > TimeoutMs

Ended(t) == taskpc[t] \in {"drop", "check", "done"}

\* C19: a host's remote operation is started at most once: it starts only
\* from a task that was waiting and never held a permit, and a task whose
\* operation has ended is never admitted again and never takes a permit again.
C19_NoRetry ==
    [][\A t \in Tasks :
          /\ (taskpc'[t] = "connect" /\ taskpc[t] # "connect") =>
                (taskpc[t] = "pending" /\ permit[t] = "none" /\ res[t] = NoRes)
          /\ Ended(t) => Ended(t)'
          /\ permit[t] = "dropped" => permit'[t] = "dropped"
          /\ taskpc[t] = "done" => taskpc'[t] = "done"]_vars

C19_Witness ==
    /\ mainpc = "join"
    /\ permits > 0
    /\ \E t \in Tasks :
          /\ taskpc[t] = "done"
          /\ DeadlineExpired(t)
          /\ ErrorRecorded(t)
    /\ \E t \in Tasks : taskpc[t] = "done" /\ RemoteError(t)

\* C20: with concurrency = 0 and a non-empty selection no task is ever
\* admitted, the join loop never ends and nothing is ever written.
C20_ZeroConcurrencyBlocks ==
    (concurrency = 0 /\ filtered_hosts # <<>>) =>
        /\ \A t \in Tasks : Waiting(t) /\ permit[t] = "none"
        /\ mainpc \in {"spawn", "join"}
        /\ joined = 0
        /\ results = <<>>
        /\ json = None
        /\ ~logfile.exists

C20_Witness ==
    /\ concurrency = 0
    /\ mainpc = "join"
    /\ Len(filtered_hosts) = 2
    /\ \A t \in Tasks : taskpc[t] = "pending"
    /\ now >= MsPerSec

\* --------------------------------------------------------- fair scheduling
\* the steps of main: the runtime keeps running main while it can proceed
MainStep ==
    \/ ParseArgs
    \/ ReadHosts
    \/ PartitionHosts
    \/ Spawn
    \/ SpawnDone
    \/ JoinNext
    \/ JoinDone
    \/ Serialize
    \/ CreateLog
    \/ WriteLog
    \/ Finish

\* the steps of task t that do not wait for the remote host: the runtime
\* polls a task that was woken by a free permit or by its timer
TaskProgress(t) ==
    /\ t \in Tasks
    /\ \/ Acquire(t)
       \/ TimedOut(t)
       \/ DropPermit(t)
       \/ CheckRes(t)

\* a run that selects the whole host file, with at least one permit and the
\* longest timeout
InitFair ==
    /\ mainpc = "parse"
    /\ index = 0
    /\ total = 1
    /\ concurrency \in 1..MaxConcurrency
    /\ timeout_secs = MaxTimeoutSecs
    /\ all_hosts = <<>>
    /\ filtered_hosts = <<>>
    /\ permits = 0
    /\ taskpc = <<>>
    /\ permit = <<>>
    /\ start_time = <<>>
    /\ res = <<>>
    /\ results = <<>>
    /\ joined = 0
    /\ json = None
    /\ logfile = [exists |-> FALSE, data |-> <<>>]
    /\ now = 0
    /\ parts = <<>>

\* the earliest deadline still ahead among the operations in flight
NextDeadline(t) ==
    /\ InFlight(t)
    /\ now < Deadline(t)
    /\ \A u \in Tasks :
          (InFlight(u) /\ now < Deadline(u)) => Deadline(t) <= Deadline(u)

\* time passes until the next armed timer is due: the clock does not stop
\* short of the deadline of an operation in flight
TickToDeadline ==
    /\ \E t \in Tasks : NextDeadline(t) /\ now' = Deadline(t)
    /\ UNCHANGED <<mainvars, permits, taskpc, permit, start_time, res,
                   results>>

NextFair ==
    \/ MainStep
    \/ TickToDeadline
    \/ \E t \in Tasks : Acquire(t)
    \/ \E t \in Tasks : Connect(t)
    \/ \E t \in Tasks : RunCommand(t)
    \/ \E t \in Tasks : Close(t)
    \/ \E t \in Tasks : TimedOut(t)
    \/ \E t \in Tasks : DropPermit(t)
    \/ \E t \in Tasks : CheckRes(t)

\* a step that does not depend on a remote host answering
Progress ==
    \/ MainStep
    \/ TickToDeadline
    \/ \E t \in Tasks : TaskProgress(t)

\* the runtime does not idle while main or a woken task can run, and time
\* passes; nothing is assumed about the remote hosts
Fairness == WF_vars(Progress)

SpecFair == InitFair /\ [][NextFair]_vars /\ Fairness

AllEnded == \A t \in Tasks : taskpc[t] = "done"

\* File::create or write_all returned an error after the join
LogfileIOFailed == mainpc = "exit_err" /\ json # None

====
